---- MODULE Spec2Model ----
(***************************************************************************)
(* beancount/core/compare.py: stable hashing of namedtuples, the           *)
(* digest -> entry index with duplicate detection, and the three set       *)
(* comparisons built on it.                                                *)
(*                                                                         *)
(* Text is a sequence of character codes ('0' = 48, 'a' = 97, ...).        *)
(* A Python value is a record with the same five fields whatever its       *)
(* kind, so that any two values can be compared:                           *)
(*   kind   "int" | "str" | "list" | "tuple"                               *)
(*   int    the number of an int                                           *)
(*   str    the characters of a str, or the type name of a namedtuple      *)
(*   fields the _fields of a namedtuple                                    *)
(*   items  the elements of a list, or the values of a namedtuple          *)
(* A "list" stands for a list or a set: the code treats both alike.        *)
(***************************************************************************)
EXTENDS Integers, Sequences, FiniteSets, TLC

VARIABLES
    objtuple1, objtuple2, ignore, digest1, digest2, hpc,
    entries1, entries2, hashseed, pc, i, entry_hash_dict, errors,
    result, raised

vars == <<objtuple1, objtuple2, ignore, digest1, digest2, hpc,
          entries1, entries2, hashseed, pc, i, entry_hash_dict, errors,
          result, raised>>

hashvars == <<objtuple1, objtuple2, ignore, digest1, digest2, hpc>>
cmpvars == <<entries1, entries2, hashseed, pc, i, entry_hash_dict, errors,
             result, raised>>

(* ---------------- bounds ---------------- *)

\* longest list held by a collection field of a hashed record
MaxElems == 3
\* longest list given to hash_entries
MaxEntries == 4
\* longest argument of a comparison
MaxLen == 2

(* ---------------- generic helpers ---------------- *)

Range(s) == {s[k] : k \in DOMAIN s}

Min(S) == CHOOSE x \in S : \A y \in S : x <= y

RECURSIVE Concat(_)
Concat(seqs) ==
    IF seqs = <<>> THEN <<>> ELSE Head(seqs) \o Concat(Tail(seqs))

RECURSIVE Join(_, _)
Join(sep, seqs) ==
    IF seqs = <<>> THEN <<>>
    ELSE IF Len(seqs) = 1 THEN Head(seqs)
    ELSE Head(seqs) \o sep \o Join(sep, Tail(seqs))

SeqsUpTo(S, n) == UNION {[1..k -> S] : k \in 0..n}

(* ---------------- Python values ---------------- *)

PyInt(n) == [kind |-> "int", int |-> n, str |-> <<>>, fields |-> <<>>, items |-> <<>>]
PyStr(s) == [kind |-> "str", int |-> 0, str |-> s, fields |-> <<>>, items |-> <<>>]
PyList(xs) == [kind |-> "list", int |-> 0, str |-> <<>>, fields |-> <<>>, items |-> xs]
NamedTuple(typename, fields, values) ==
    [kind |-> "tuple", int |-> 0, str |-> typename, fields |-> fields, items |-> values]

\* getattr(objtuple, name)
Attr(objtuple, name) ==
    objtuple.items[CHOOSE k \in DOMAIN objtuple.fields : objtuple.fields[k] = name]

\* str(n) of a one-digit int: its digit
Digits(n) == <<48 + n>>

\* repr(x): a str is quoted, a list is bracketed, a namedtuple is its type
\* name and its values in parentheses (the 'name=' labels, the same for every
\* tuple of a type, are left out); every field is printed, ignored or not.
RECURSIVE Repr(_)
Repr(x) ==
    CASE x.kind = "int" -> Digits(x.int)
      [] x.kind = "str" -> <<39>> \o x.str \o <<39>>
      [] x.kind = "list" ->
            <<91>> \o Join(<<44, 32>>, [k \in DOMAIN x.items |-> Repr(x.items[k])]) \o <<93>>
      [] x.kind = "tuple" ->
            x.str \o <<40>>
                \o Join(<<44, 32>>, [k \in DOMAIN x.items |-> Repr(x.items[k])])
                \o <<41>>

\* str(x): as repr(x), but a str is itself
Str(x) == IF x.kind = "str" THEN x.str ELSE Repr(x)

(* ---------------- stable_hash_namedtuple ---------------- *)

\* hashlib.md5(data).hexdigest(), taken as injective: the data between two
\* delimiters that occur in no modelled text. Hex digests have a fixed
\* width, so a concatenation of them splits in one way only, as it does here.
Md5Hex(data) == <<60>> \o data \o <<62>>

\* a < b or a = b in the lexicographic order of Python's str
LexLeq(a, b) ==
    LET n == IF Len(a) <= Len(b) THEN Len(a) ELSE Len(b)
        diff == {k \in 1..n : a[k] # b[k]}
    IN  IF diff = {} THEN Len(a) <= Len(b) ELSE a[Min(diff)] < b[Min(diff)]

\* sorted(subhashes)
RECURSIVE SortedSubhashes(_)
SortedSubhashes(subhashes) ==
    IF subhashes = {} THEN <<>>
    ELSE LET m == CHOOSE x \in subhashes : \A y \in subhashes : LexLeq(x, y)
         IN  <<m>> \o SortedSubhashes(subhashes \ {m})

RECURSIVE stable_hash_namedtuple(_, _)

\* the sub-digest of one element of a list
ElementHash(element, ign) ==
    IF element.kind = "tuple"
    THEN stable_hash_namedtuple(element, ign)
    ELSE Md5Hex(Str(element))

\* what a list field feeds to hashobj: the sorted set of sub-digests (a
\* variant that feeds one sub-digest per element, in list order)
ListUpdateInOrder(attr_value, ign) ==
    Concat([k \in DOMAIN attr_value.items |-> ElementHash(attr_value.items[k], ign)])

ListUpdate(attr_value, ign) ==
    Concat(SortedSubhashes({ElementHash(e, ign) : e \in Range(attr_value.items)}))

\* what one attribute feeds to hashobj
AttrUpdate(attr_name, attr_value, ign) ==
    IF attr_name \in ign THEN <<>>
    ELSE IF attr_value.kind = "list" THEN ListUpdate(attr_value, ign)
    ELSE Str(attr_value)

stable_hash_namedtuple(objtuple, ign) ==
    Md5Hex(Concat([k \in DOMAIN objtuple.fields |->
                      AttrUpdate(objtuple.fields[k], objtuple.items[k], ign)]))

\* the ignore set of hash_entry
EntryIgnore == {"source", "entry", "diff_amount"}

hash_entry(entry) == stable_hash_namedtuple(entry, EntryIgnore)

(* ---------------- the records that are hashed ---------------- *)

\* Posting(entry, account): 'entry' is the back-reference to the parent,
\* held here as the parent's line number
Posting(entry, account) ==
    NamedTuple(<<80>>, <<"entry", "account">>, <<PyInt(entry), PyStr(account)>>)

\* Transaction(source, date, narration, tags, postings, posting)
Transaction(source, date, narration, tags, postings, posting) ==
    NamedTuple(<<84>>,
               <<"source", "date", "narration", "tags", "postings", "posting">>,
               <<PyInt(source), date, PyStr(narration), PyList(tags),
                 PyList(postings), posting>>)

Postings == {Posting(1, <<97>>), Posting(2, <<97>>), Posting(1, <<98>>)}
Tags == {PyStr(<<97>>), PyStr(<<98>>)}
Dates == {PyStr(<<49>>), PyInt(1), PyStr(<<49, 50>>)}
Narrations == {<<>>, <<50>>, <<97>>}

\* the records drawn as inputs of the hash: a base record varied in its
\* scalar fields, in its list of scalars, in its list of tuples and in its
\* nested tuple
HashedRecords ==
    {Transaction(s, d, n, <<>>, <<>>, Posting(1, <<97>>)) :
        s \in {1, 2}, d \in Dates, n \in Narrations}
    \cup {Transaction(1, PyStr(<<49>>), <<97>>, t, <<>>, Posting(1, <<97>>)) :
        t \in SeqsUpTo(Tags, MaxElems)}
    \cup {Transaction(1, PyStr(<<49>>), <<97>>, <<>>, p, Posting(1, <<97>>)) :
        p \in SeqsUpTo(Postings, MaxElems - 1)}
    \cup {Transaction(1, PyStr(<<49>>), <<97>>, <<>>, <<>>, p) : p \in Postings}

IgnoreSets == {{}, EntryIgnore}

(* ---------------- hash_entries ---------------- *)

\* the entries that are compared: two that differ in 'source' alone, one
\* with the date and source of the first and another narration, one with
\* an earlier date
Txn(source, date, narration) ==
    Transaction(source, PyStr(date), narration, <<>>,
                <<Posting(source, <<97>>)>>, Posting(1, <<97>>))

Entries ==
    {Txn(1, <<49>>, <<97>>), Txn(2, <<49>>, <<97>>),
     Txn(1, <<49>>, <<98>>), Txn(2, <<48>>, <<97>>)}

\* "Duplicate entry: {} == {}".format(entry, other_entry)
DuplicateMessage(entry, other_entry) ==
    [format |-> "Duplicate entry: {} == {}",
     args |-> <<Str(entry), Str(other_entry)>>]

CompareError(source, message, entry) ==
    [source |-> source, message |-> message, entry |-> entry]

\* the errors after one entry: a CompareError when its hash is in the dict
\* (a variant that reports the first duplicate only)
DuplicateErrorsFirstOnly(errs, dict, hash_, entry) ==
    IF hash_ \in DOMAIN dict /\ errs = <<>>
    THEN Append(errs, CompareError(Attr(entry, "source"),
                                   DuplicateMessage(entry, dict[hash_]), entry))
    ELSE errs

DuplicateErrors(errs, dict, hash_, entry) ==
    IF hash_ \in DOMAIN dict
    THEN Append(errs, CompareError(Attr(entry, "source"),
                                   DuplicateMessage(entry, dict[hash_]), entry))
    ELSE errs

\* entry_hash_dict[hash_] = entry (a variant that keeps the entry stored
\* first, as dict.setdefault does)
DictStoreKeepFirst(dict, hash_, entry) ==
    [h \in DOMAIN dict \cup {hash_} |-> IF h \in DOMAIN dict THEN dict[h] ELSE entry]

DictStore(dict, hash_, entry) ==
    [h \in DOMAIN dict \cup {hash_} |-> IF h = hash_ THEN entry ELSE dict[h]]

\* one iteration of the loop over entries
HashEntriesStep(dict, errs, entry) ==
    LET hash_ == hash_entry(entry)
    IN  [dict |-> DictStore(dict, hash_, entry),
         errors |-> DuplicateErrors(errs, dict, hash_, entry)]

\* the assertion made when errors is empty
AssertionHolds(dict, errs, entries) ==
    errs # <<>> \/ Cardinality(DOMAIN dict) = Len(entries)

\* hash_entries(entries) as one call: the loop, then the assertion
RECURSIVE HashEntriesLoop(_, _)
HashEntriesLoop(entries, n) ==
    IF n = 0 THEN [dict |-> [h \in {} |-> <<>>], errors |-> <<>>]
    ELSE LET before == HashEntriesLoop(entries, n - 1)
         IN  HashEntriesStep(before.dict, before.errors, entries[n])

hash_entries(entries) ==
    LET done == HashEntriesLoop(entries, Len(entries))
    IN  [dict |-> done.dict, errors |-> done.errors,
         asserted |-> AssertionHolds(done.dict, done.errors, entries)]

(* ---------------- the three comparisons ---------------- *)

\* entry_sortkey(entry) of beancount.core.data: the date, then the line
\* the entry comes from
entry_sortkey(entry) == <<Attr(entry, "date").str, Attr(entry, "source").int>>

SortKeyLess(k1, k2) ==
    \/ k1[1] # k2[1] /\ LexLeq(k1[1], k2[1])
    \/ k1[1] = k2[1] /\ k1[2] < k2[2]

\* sorted(records, key=entry_sortkey): a stable sort, records of equal key
\* stay in the order they came in
RECURSIVE SortedByKey(_)
SortedByKey(records) ==
    IF records = <<>> THEN <<>>
    ELSE LET n == Len(records)
             x == records[n]
             front == SortedByKey(SubSeq(records, 1, n - 1))
             keep == {k \in DOMAIN front :
                         ~SortKeyLess(entry_sortkey(x), entry_sortkey(front[k]))}
         IN  SubSeq(front, 1, Cardinality(keep)) \o <<x>>
                 \o SubSeq(front, Cardinality(keep) + 1, Len(front))

\* the seeds of str hashing a process can start with
HashSeeds == {0, 1}

Reverse(s) == [k \in DOMAIN s |-> s[Len(s) + 1 - k]]

\* the order 'for key in <set of digests>' visits the set in: fixed by the
\* set and the seed of the process, and not the same under every seed
IterationOrder(keys, seed) ==
    IF seed = 0 THEN SortedSubhashes(keys) ELSE Reverse(SortedSubhashes(keys))

\* [hashes[key] for key in keys]
Lookup(hashes, keys, seed) ==
    LET order == IterationOrder(keys, seed)
    IN  [k \in DOMAIN order |-> hashes[order[k]]]

\* str(error) of a CompareError
StrCompareError(error) ==
    [typename |-> "CompareError", source |-> Repr(error.source),
     message |-> error.message, entry |-> Repr(error.entry)]

ValueError(error) == [type |-> "ValueError", args |-> <<StrCompareError(error)>>]
AssertionError == [type |-> "AssertionError", args |-> <<>>]

\* (errors1 + errors2)[0] (a variant that looks at errors2 first)
FirstErrorOfSecond(errors1, errors2) == Head(errors2 \o errors1)

FirstError(errors1, errors2) == Head(errors1 \o errors2)

\* what a comparison does before it compares: both lists are hashed, and
\* an error of either is raised
Raised(h1, h2) ==
    IF ~h1.asserted \/ ~h2.asserted THEN <<AssertionError>>
    ELSE IF h1.errors # <<>> \/ h2.errors # <<>>
    THEN <<ValueError(FirstError(h1.errors, h2.errors))>>
    ELSE <<>>

Returned(success, list1, list2) ==
    [returned |-> TRUE, success |-> success, list1 |-> list1, list2 |-> list2]

NoResult == [returned |-> FALSE, success |-> FALSE, list1 |-> <<>>, list2 |-> <<>>]

\* same = keys1 == keys2 (a variant that tests inclusion)
SameKeysSubset(keys1, keys2) == keys1 \subseteq keys2

SameKeys(keys1, keys2) == keys1 = keys2

compare_entries(e1, e2, seed) ==
    LET h1 == hash_entries(e1)
        h2 == hash_entries(e2)
        keys1 == DOMAIN h1.dict
        keys2 == DOMAIN h2.dict
    IN  IF Raised(h1, h2) # <<>>
        THEN [raised |-> Raised(h1, h2), result |-> NoResult]
        ELSE [raised |-> <<>>,
              result |-> Returned(SameKeys(keys1, keys2),
                            SortedByKey(Lookup(h1.dict, keys1 \ keys2, seed)),
                            SortedByKey(Lookup(h2.dict, keys2 \ keys1, seed)))]

\* subset_keys.issubset(keys) (a variant that asks for a proper subset)
IsProperSubset(subset_keys, keys) == subset_keys \subseteq keys /\ subset_keys # keys

IsSubset(subset_keys, keys) == subset_keys \subseteq keys

includes_entries(subset_entries, entries, seed) ==
    LET subset == hash_entries(subset_entries)
        all == hash_entries(entries)
        subset_keys == DOMAIN subset.dict
        keys == DOMAIN all.dict
    IN  IF Raised(subset, all) # <<>>
        THEN [raised |-> Raised(subset, all), result |-> NoResult]
        ELSE [raised |-> <<>>,
              result |-> Returned(IsSubset(subset_keys, keys),
                            SortedByKey(Lookup(subset.dict, subset_keys \ keys, seed)),
                            <<>>)]

\* keys.intersection(subset_keys) (a variant that takes the keys of the
\* subset that the other list lacks)
IntersectionComplement(keys, subset_keys) == subset_keys \ keys

Intersection(keys, subset_keys) == keys \cap subset_keys

excludes_entries(subset_entries, entries, seed) ==
    LET subset == hash_entries(subset_entries)
        all == hash_entries(entries)
        subset_keys == DOMAIN subset.dict
        keys == DOMAIN all.dict
        intersection == Intersection(keys, subset_keys)
    IN  IF Raised(subset, all) # <<>>
        THEN [raised |-> Raised(subset, all), result |-> NoResult]
        ELSE [raised |-> <<>>,
              result |-> Returned(intersection = {},
                            SortedByKey(Lookup(subset.dict, intersection, seed)),
                            <<>>)]

(* ---------------- SpecIndex: hash_entries on one list ---------------- *)

NoTuple == NamedTuple(<<>>, <<>>, <<>>)

HashIdle ==
    /\ objtuple1 = NoTuple
    /\ objtuple2 = NoTuple
    /\ ignore = {}
    /\ digest1 = <<>>
    /\ digest2 = <<>>
    /\ hpc = "idle"

InitIndex ==
    /\ entries1 \in SeqsUpTo(Entries, MaxEntries)
    /\ entries2 = <<>>
    /\ hashseed = 0
    /\ pc = "loop"
    /\ i = 0
    /\ entry_hash_dict = [h \in {} |-> <<>>]
    /\ errors = <<>>
    /\ result = NoResult
    /\ raised = <<>>
    /\ HashIdle

\* hash_entries(entries1), one iteration of its loop
HashEntriesIter ==
    /\ pc = "loop"
    /\ i < Len(entries1)
    /\ LET after == HashEntriesStep(entry_hash_dict, errors, entries1[i + 1])
       IN  /\ entry_hash_dict' = after.dict
           /\ errors' = after.errors
    /\ i' = i + 1
    /\ UNCHANGED <<entries1, entries2, hashseed, pc, result, raised>>
    /\ UNCHANGED hashvars

\* hash_entries(entries1), after its loop: the assertion and the return
HashEntriesReturn ==
    /\ pc = "loop"
    /\ i = Len(entries1)
    /\ pc' = IF AssertionHolds(entry_hash_dict, errors, entries1)
             THEN "returned" ELSE "AssertionError"
    /\ UNCHANGED <<entries1, entries2, hashseed, i, entry_hash_dict, errors,
                   result, raised>>
    /\ UNCHANGED hashvars

NextIndex == HashEntriesIter \/ HashEntriesReturn

SpecIndex == InitIndex /\ [][NextIndex]_vars

(* ---------------- Spec: the three comparisons on two lists ---------------- *)

Init ==
    /\ entries1 \in SeqsUpTo(Entries, MaxLen)
    /\ entries2 \in SeqsUpTo(Entries, MaxLen)
    /\ hashseed \in HashSeeds
    /\ pc = "start"
    /\ i = 0
    /\ entry_hash_dict = [h \in {} |-> <<>>]
    /\ errors = <<>>
    /\ result = NoResult
    /\ raised = <<>>
    /\ HashIdle

\* the end of a call on (entries1, entries2): what it raised or returned
Called(name, outcome) ==
    /\ pc' = name
    /\ raised' = outcome.raised
    /\ result' = outcome.result
    /\ UNCHANGED <<entries1, entries2, hashseed, i, entry_hash_dict, errors>>
    /\ UNCHANGED hashvars

CompareEntries ==
    /\ pc = "start"
    /\ Called("compare_entries", compare_entries(entries1, entries2, hashseed))

IncludesEntries ==
    /\ pc = "start"
    /\ Called("includes_entries", includes_entries(entries1, entries2, hashseed))

ExcludesEntries ==
    /\ pc = "start"
    /\ Called("excludes_entries", excludes_entries(entries1, entries2, hashseed))

Next == CompareEntries \/ IncludesEntries \/ ExcludesEntries

Spec == Init /\ [][Next]_vars

(* ---------------- claims about hash_entries ---------------- *)

\* the positions among the first n of es whose digest is that of an earlier
\* position
DuplicatePositions(es, n) ==
    {k \in 1..n : \E j \in 1..(k - 1) : hash_entry(es[j]) = hash_entry(es[k])}

HasDuplicate(es) == DuplicatePositions(es, Len(es)) # {}

\* the last position before k with the digest of position k
PreviousOccurrence(es, k) ==
    CHOOSE j \in 1..(k - 1) :
        /\ hash_entry(es[j]) = hash_entry(es[k])
        /\ \A m \in (j + 1)..(k - 1) : hash_entry(es[m]) # hash_entry(es[k])

\* the error owed to the duplicate at position k
DuplicateErrorAt(es, k) ==
    [source |-> Attr(es[k], "source"),
     message |-> [format |-> "Duplicate entry: {} == {}",
                  args |-> <<Str(es[k]), Str(es[PreviousOccurrence(es, k)])>>],
     entry |-> es[k]]

\* C1: hash_entries never stops on a duplicate: it returns only after the
\* last record. When it returns there is one error per record whose digest is that of an earlier record, so that
\* len(errors) = len(entries) - len(index), errors is empty exactly when
\* len(index) = len(entries), and the assertion never fails.
C1_OneErrorPerDuplicate ==
    /\ pc # "AssertionError"
    /\ pc = "loop" => i <= Len(entries1)
    /\ pc = "returned" =>
          /\ i = Len(entries1)
          /\ Len(errors) = Cardinality(DuplicatePositions(entries1, Len(entries1)))
          /\ Len(errors) = Len(entries1) - Cardinality(DOMAIN entry_hash_dict)
          /\ (errors = <<>>) <=> (Cardinality(DOMAIN entry_hash_dict) = Len(entries1))

\* C1 witness: hash_entries has returned two errors and an index of two
\* digests
C1_Witness ==
    /\ pc = "returned"
    /\ Len(errors) = 2
    /\ Cardinality(DOMAIN entry_hash_dict) = 2

\* C10: after any prefix of the input, index[d] is the last record of the
\* prefix with digest d; the n-th error belongs to the n-th duplicate of the
\* prefix, carries that record as its entry and that record's source, and
\* its message names that record and the record the index held just before,
\* the most recent earlier occurrence.
C10_LastWriteVisible ==
    pc \in {"loop", "returned"} =>
        /\ DOMAIN entry_hash_dict = {hash_entry(entries1[k]) : k \in 1..i}
        /\ \A k \in 1..i :
              (\A j \in (k + 1)..i : hash_entry(entries1[j]) # hash_entry(entries1[k]))
                  => entry_hash_dict[hash_entry(entries1[k])] = entries1[k]
        /\ LET dups == DuplicatePositions(entries1, i)
           IN  /\ Len(errors) = Cardinality(dups)
               /\ \A k \in dups :
                     LET e == errors[Cardinality({d \in dups : d <= k})]
                         owed == DuplicateErrorAt(entries1, k)
                     IN  /\ e.entry = entries1[k]
                         /\ e.source = Attr(entries1[k], "source")
                         /\ e.message = owed.message

\* C10 witness: three records of one digest have been hashed, the second
\* not the same record as the first
C10_Witness ==
    /\ pc = "returned"
    /\ Len(entries1) = 3
    /\ Cardinality(DOMAIN entry_hash_dict) = 1
    /\ entries1[1] # entries1[2]
    /\ Len(errors) = 2

(* ---------------- claims about the comparisons ---------------- *)

Compared == pc \in {"compare_entries", "includes_entries", "excludes_entries"}

\* the first duplicate error of es
FirstDuplicateError(es) ==
    DuplicateErrorAt(es, Min(DuplicatePositions(es, Len(es))))

\* C2: each of the three comparisons raises ValueError and returns nothing
\* when either list holds a duplicate digest, the error being the first
\* duplicate error of the first list when it has one and of the second list
\* otherwise; with no duplicate in either list it returns.
C2_FirstDuplicateIsRaised ==
    Compared =>
        IF HasDuplicate(entries1) \/ HasDuplicate(entries2)
        THEN /\ result = NoResult
             /\ raised = <<ValueError(IF HasDuplicate(entries1)
                                      THEN FirstDuplicateError(entries1)
                                      ELSE FirstDuplicateError(entries2))>>
        ELSE /\ raised = <<>>
             /\ result.returned

\* C2 witness: a comparison of two lists that each hold a duplicate, with
\* different first errors, has raised
C2_Witness ==
    /\ Compared
    /\ HasDuplicate(entries1)
    /\ HasDuplicate(entries2)
    /\ FirstDuplicateError(entries1) # FirstDuplicateError(entries2)
    /\ raised # <<>>

DigestSet(es) == {hash_entry(es[k]) : k \in DOMAIN es}

\* C6: compare_entries(A, B) and compare_entries(B, A) both raise or both
\* return; when they return they agree on the boolean and their two lists
\* are swapped; the boolean is true exactly when the digest sets are equal.
C6_CompareIsSymmetric ==
    pc = "compare_entries" =>
        LET swapped == compare_entries(entries2, entries1, hashseed)
        IN  /\ (raised # <<>>) <=> (swapped.raised # <<>>)
            /\ result.returned <=> swapped.result.returned
            /\ result.returned =>
                  /\ result.success = swapped.result.success
                  /\ result.list1 = swapped.result.list2
                  /\ result.list2 = swapped.result.list1
                  /\ result.success <=> (DigestSet(entries1) = DigestSet(entries2))

\* C6 witness: compare_entries has returned False with records missing on
\* both sides
C6_Witness ==
    /\ pc = "compare_entries"
    /\ result.returned
    /\ ~result.success
    /\ result.list1 # <<>>
    /\ result.list2 # <<>>
    /\ result.list1 # result.list2

\* every record of es1 is a record of es2
HeldIn(es1, es2) == Range(es1) \subseteq Range(es2)

\* C7 as claimed: includes_entries(A, A u B) is (True, []) for all A and B.
C7_IncludedInUnion ==
    (pc = "includes_entries" /\ HeldIn(entries1, entries2))
        => result = Returned(TRUE, <<>>, <<>>)

\* C7 as amended: includes_entries(A, A u B) is (True, []) when neither list
\* holds a duplicate digest, and raises ValueError, returning nothing, when
\* one does.
C7_IncludedInUnionWithoutDuplicates ==
    (pc = "includes_entries" /\ HeldIn(entries1, entries2)) =>
        IF HasDuplicate(entries1) \/ HasDuplicate(entries2)
        THEN result = NoResult /\ Len(raised) = 1 /\ raised[1].type = "ValueError"
        ELSE raised = <<>> /\ result = Returned(TRUE, <<>>, <<>>)

\* C7 witness: includes_entries has returned for a non-empty list and a
\* larger list that holds its records
C7_Witness ==
    /\ pc = "includes_entries"
    /\ entries1 # <<>>
    /\ HeldIn(entries1, entries2)
    /\ ~HeldIn(entries2, entries1)
    /\ result.returned

IsSortedByKey(records) ==
    \A k \in 1..(Len(records) - 1) :
        ~SortKeyLess(entry_sortkey(records[k + 1]), entry_sortkey(records[k]))

\* records holds the records of es, each as often as es does
IsPermutation(records, es) ==
    /\ Len(records) = Len(es)
    /\ \A x \in Range(es) \cup Range(records) :
          Cardinality({k \in DOMAIN records : records[k] = x})
              = Cardinality({k \in DOMAIN es : es[k] = x})

\* C8 as claimed: excludes_entries(A, A) is (False, A) for every non-empty A.
C8_SelfOverlapIsTheList ==
    (pc = "excludes_entries" /\ entries1 # <<>> /\ entries2 = entries1)
        => result = Returned(FALSE, entries1, <<>>)

\* C8 as amended: for a non-empty A without a duplicate digest,
\* excludes_entries(A, A) is (False, L), L holding the records of A sorted
\* by entry_sortkey; when A holds a duplicate digest the call raises
\* ValueError and returns nothing.
C8_SelfOverlapIsTheSortedList ==
    (pc = "excludes_entries" /\ entries1 # <<>> /\ entries2 = entries1) =>
        IF HasDuplicate(entries1)
        THEN result = NoResult /\ Len(raised) = 1 /\ raised[1].type = "ValueError"
        ELSE /\ raised = <<>>
             /\ result.returned
             /\ ~result.success
             /\ IsPermutation(result.list1, entries1)
             /\ IsSortedByKey(result.list1)

\* C8 witness: excludes_entries(A, A) has returned for a list A of two
\* records that is not in the order of entry_sortkey
C8_Witness ==
    /\ pc = "excludes_entries"
    /\ entries2 = entries1
    /\ Len(entries1) = 2
    /\ ~IsSortedByKey(entries1)
    /\ result.returned

\* the outcome of the call that ended in pc, had the process started with
\* seed
OutcomeUnder(seed) ==
    CASE pc = "compare_entries" -> compare_entries(entries1, entries2, seed)
      [] pc = "includes_entries" -> includes_entries(entries1, entries2, seed)
      [] pc = "excludes_entries" -> excludes_entries(entries1, entries2, seed)

\* C9: the lists the three comparisons return are sorted by entry_sortkey,
\* and are the same whatever order the set of digests is iterated in, also
\* when returned records have equal sort keys.
C9_SortedWhateverTheIterationOrder ==
    (Compared /\ result.returned) =>
        /\ IsSortedByKey(result.list1)
        /\ IsSortedByKey(result.list2)
        /\ \A seed \in HashSeeds : OutcomeUnder(seed).result = result

(* ---------------- the comparison state, idle while hashing ---------------- *)

CmpIdle ==
    /\ entries1 = <<>>
    /\ entries2 = <<>>
    /\ hashseed = 0
    /\ pc = "idle"
    /\ i = 0
    /\ entry_hash_dict = [h \in {} |-> <<>>]
    /\ errors = <<>>
    /\ result = NoResult
    /\ raised = <<>>

(* ---------------- SpecHash: stable_hash_namedtuple on two records ---------------- *)

InitHash ==
    /\ objtuple1 \in HashedRecords
    /\ objtuple2 \in HashedRecords
    /\ ignore \in IgnoreSets
    /\ digest1 = <<>>
    /\ digest2 = <<>>
    /\ hpc = "start"
    /\ CmpIdle

\* both records are hashed with the same ignore set
StableHash ==
    /\ hpc = "start"
    /\ digest1' = stable_hash_namedtuple(objtuple1, ignore)
    /\ digest2' = stable_hash_namedtuple(objtuple2, ignore)
    /\ hpc' = "hashed"
    /\ UNCHANGED <<objtuple1, objtuple2, ignore>>
    /\ UNCHANGED cmpvars

NextHash == StableHash

SpecHash == InitHash /\ [][NextHash]_vars

(* ---------------- claims about stable_hash_namedtuple ---------------- *)

\* a and b are the same value but for the values of fields named in ign,
\* wherever such a field occurs: at the top, in a tuple that is an element
\* of a list, in a nested tuple
RECURSIVE EqualButIgnored(_, _, _)
EqualButIgnored(a, b, ign) ==
    /\ a.kind = b.kind
    /\ a.int = b.int
    /\ a.str = b.str
    /\ a.fields = b.fields
    /\ Len(a.items) = Len(b.items)
    /\ \A k \in DOMAIN a.items :
          \/ a.kind = "tuple" /\ a.fields[k] \in ign
          \/ EqualButIgnored(a.items[k], b.items[k], ign)

\* C3: two records that are identical except in the values of ignored
\* fields, at the top level, inside tuples held in a list field or inside a
\* nested tuple field, have equal digests.
C3_IgnoredFieldsDoNotCount ==
    (hpc = "hashed" /\ EqualButIgnored(objtuple1, objtuple2, ignore))
        => digest1 = digest2

\* a and b have the same schema and differ only in list fields, each pair of
\* lists holding the same set of elements
SameButListOrder(a, b) ==
    /\ a.fields = b.fields
    /\ a.str = b.str
    /\ \A k \in DOMAIN a.items :
          \/ a.items[k] = b.items[k]
          \/ /\ a.items[k].kind = "list"
             /\ b.items[k].kind = "list"
             /\ Range(a.items[k].items) = Range(b.items[k].items)

\* C4: the digest depends on a list field only through the set of its
\* elements: permuting the list, or repeating an element it already holds,
\* leaves the digest unchanged.
C4_ListOrderAndRepeatsDoNotCount ==
    (hpc = "hashed" /\ SameButListOrder(objtuple1, objtuple2))
        => digest1 = digest2

\* C4 witness: two hashed records whose list field holds the same elements,
\* permuted in one and with one of them repeated in the other
C4_Witness ==
    /\ hpc = "hashed"
    /\ SameButListOrder(objtuple1, objtuple2)
    /\ \E k \in DOMAIN objtuple1.items :
          LET x == objtuple1.items[k].items
              y == objtuple2.items[k].items
          IN  /\ objtuple1.items[k].kind = "list"
              /\ Len(x) = 2 /\ Len(y) = 3
              /\ x[1] # x[2]
              /\ y[1] = x[2] /\ y[2] = x[1]

\* a and b, of one schema, differ in the str() of a scalar field that is not
\* ignored, or in the elements (compared but for ignored fields) of a list
\* field that is not ignored
DifferInHashedContent(a, b, ign) ==
    /\ a.fields = b.fields
    /\ a.str = b.str
    /\ \A k \in DOMAIN a.items : a.items[k].kind = b.items[k].kind
    /\ \E k \in DOMAIN a.items :
          /\ a.fields[k] \notin ign
          /\ \/ /\ a.items[k].kind \in {"int", "str"}
                /\ Str(a.items[k]) # Str(b.items[k])
             \/ /\ a.items[k].kind = "list"
                /\ \/ \E x \in Range(a.items[k].items) :
                         \A y \in Range(b.items[k].items) : ~EqualButIgnored(x, y, ign)
                   \/ \E y \in Range(b.items[k].items) :
                         \A x \in Range(a.items[k].items) : ~EqualButIgnored(x, y, ign)

\* C5: with md5 injective, two records of one schema that differ in the
\* str() of a scalar field that is not ignored, or in the set of elements of
\* a list field that is not ignored, have different digests.
C5_DifferentContentDifferentDigest ==
    (hpc = "hashed" /\ DifferInHashedContent(objtuple1, objtuple2, ignore))
        => digest1 # digest2

====
